---------------------------- MODULE Spec2Model ----------------------------
(***************************************************************************)
(* Model of src/main.rs: a Mersenne-prime search.                          *)
(*                                                                         *)
(*   mod_mersenne       reduction modulo 2^p - 1 by shift, mask and add    *)
(*   is_mersenne_prime  the Lucas-Lehmer loop over BigUint                 *)
(*   is_prime           trial division over u64                            *)
(*   main               range filter, parallel map over the exponents,     *)
(*                      ordered collection and report                      *)
(*                                                                         *)
(* A BigUint is modelled as num-bigint stores it: a little-endian sequence *)
(* of digits with no most-significant zero digit (zero is the empty        *)
(* sequence).  The digit is DigitBits = 15 bits wide instead of 32/64 bits *)
(* so that every digit product fits the model checker's 32-bit integers;   *)
(* the value semantics of the type do not depend on the digit width.       *)
(*                                                                         *)
(* Four specifications, one per routine: SpecReduce, SpecLL, SpecPrime,    *)
(* SpecPool.                                                               *)
(***************************************************************************)
EXTENDS Integers, Sequences, FiniteSets, TLC

VARIABLES
    \* mod_mersenne (one call, then a second call on its own result)
    r_in,       \* the argument n of the first call
    r_p,        \* the argument p
    r_n,        \* the local `n`
    r_ret,      \* the value returned by the call ("none" until it returns)
    r_pc,       \* "loop" | "check" | "done"
    r_call,     \* 1: first call, 2: the call on the first call's result
    r_first,    \* the first call's result (<<>> until it returned)
    r_prev,     \* `n` before the last loop iteration (when r_iters > 0)
    r_iters,    \* loop iterations of the current call
    \* is_mersenne_prime
    l_p,        \* the argument p
    l_verbose,  \* the argument verbose
    l_s,        \* the local `s`
    l_i,        \* the loop variable `i`
    l_pc,       \* "entry" | "loop" | "reduce" | "done" | "panic"
    l_ret,      \* the value returned ("none" until the call returns)
    l_percent,  \* the last percentage printed (-1: none)
    \* is_prime
    q_n,        \* the argument n
    q_i,        \* the local `i`
    q_pc,       \* "entry" | "loop" | "done" | "panic"
    q_ret,      \* the value returned ("none" until the call returns)
    q_checks,   \* whether the build checks integer overflow (debug) or wraps (release)
    \* main
    m_start,     \* options.start_exponent
    m_end,       \* options.end_exponent
    m_pc,        \* "start" | "map" | "report" | "done" | "usage" | "panic"
    m_exponents, \* the vector `exponents`
    m_task,      \* per index of `exponents`: the closure call's position and locals
    m_results,   \* the vector `results`
    m_printed,   \* the exponents printed after "Mersenne primes found:"
    m_late       \* whether some call finished before a call of a smaller index

redVars   == <<r_in, r_p, r_n, r_ret, r_pc, r_call, r_first, r_prev, r_iters>>
llVars    == <<l_p, l_verbose, l_s, l_i, l_pc, l_ret, l_percent>>
primeVars == <<q_n, q_i, q_pc, q_ret, q_checks>>
poolVars  == <<m_start, m_end, m_pc, m_exponents, m_task, m_results, m_printed, m_late>>
vars      == <<redVars, llVars, primeVars, poolVars>>

---------------------------------------------------------------------------
(* Bounds of the model *)

\* mod_mersenne is run on every n in 0..MaxInput
MaxInput == 1000
\* ... and every exponent p in 1..MaxReduceP
MaxReduceP == 15
\* is_mersenne_prime is run on every p in 0..MaxExponent
MaxExponent == 31
\* width of the machine word of is_prime (u64 in the source), scaled down;
\* is_prime is run on every n of the word
WordBits == 14
\* the range on which is_prime is compared with the definition of a prime
TestedRange == 10000
\* main is run on every start_exponent and end_exponent in 0..MaxEnd
MaxEnd == 20
\* threads of the worker pool: calls of the closure in progress at a time
NumWorkers == 2

---------------------------------------------------------------------------
(* BigUint: little-endian digit sequences, normalized *)

\* width of one digit (num-bigint: 32 or 64)
DigitBits == 15

Base == 2 ^ DigitBits

\* the outcome of a call: a returned boolean, or a panic
Ok(b) == [ok |-> TRUE, value |-> b]

Failed == [ok |-> FALSE, value |-> FALSE]

Max(a, b) == IF a < b THEN b ELSE a

RECURSIVE Normalize(_)
\* strip most-significant zero digits
Normalize(d) ==
    IF d = <<>> THEN <<>>
    ELSE IF d[Len(d)] = 0 THEN Normalize(SubSeq(d, 1, Len(d) - 1))
    ELSE d

RECURSIVE FromNat(_)
\* the BigUint of a natural number
FromNat(x) == IF x = 0 THEN <<>> ELSE <<x % Base>> \o FromNat(x \div Base)

Zero == <<>>

One == <<1>>

IsZero(a) == a = <<>>

RECURSIVE BitLen(_)
\* number of significant bits of one digit
BitLen(x) ==
    IF x = 0 THEN 0
    ELSE IF x >= 256 THEN 8 + BitLen(x \div 256)
    ELSE IF x >= 16 THEN 4 + BitLen(x \div 16)
    ELSE IF x >= 4 THEN 2 + BitLen(x \div 4)
    ELSE IF x >= 2 THEN 2 ELSE 1

\* BigUint::bits
Bits(a) == IF a = <<>> THEN 0 ELSE DigitBits * (Len(a) - 1) + BitLen(a[Len(a)])

RECURSIVE ShrDigits(_, _, _)
\* digits i.. of m shifted right by r bits (0 < r < DigitBits)
ShrDigits(m, r, i) ==
    IF i > Len(m) THEN <<>>
    ELSE <<(m[i] \div (2 ^ r))
             + (IF i < Len(m) THEN (m[i + 1] % (2 ^ r)) * (2 ^ (DigitBits - r)) ELSE 0)>>
         \o ShrDigits(m, r, i + 1)

\* a >> k
Shr(a, k) ==
    LET q == k \div DigitBits
        r == k % DigitBits
    IN  IF q >= Len(a) THEN <<>>
        ELSE LET m == SubSeq(a, q + 1, Len(a))
             IN  IF r = 0 THEN m ELSE Normalize(ShrDigits(m, r, 1))

RECURSIVE Zeros(_)
Zeros(k) == IF k = 0 THEN <<>> ELSE <<0>> \o Zeros(k - 1)

\* BigUint::one() << k
OneShl(k) == Zeros(k \div DigitBits) \o <<2 ^ (k % DigitBits)>>

RECURSIVE AndBits(_, _, _)
\* bitwise and of two numbers of w bits, by halves
AndBits(x, y, w) ==
    IF x = 0 \/ y = 0 THEN 0
    ELSE IF y = 2 ^ w - 1 THEN x
    ELSE IF x = 2 ^ w - 1 THEN y
    ELSE LET h == w \div 2
         IN  AndBits(x % (2 ^ h), y % (2 ^ h), h)
               + (2 ^ h) * AndBits(x \div (2 ^ h), y \div (2 ^ h), w - h)

\* bitwise and of two digits
DigitAnd(x, y) == AndBits(x, y, DigitBits)

RECURSIVE AndDigits(_, _, _)
AndDigits(a, b, i) ==
    IF i > Len(a) \/ i > Len(b) THEN <<>>
    ELSE <<DigitAnd(a[i], b[i])>> \o AndDigits(a, b, i + 1)

\* a & b
BitAnd(a, b) == Normalize(AndDigits(a, b, 1))

RECURSIVE AddDigits(_, _, _, _)
AddDigits(a, b, i, c) ==
    IF i > Len(a) /\ i > Len(b) THEN (IF c = 0 THEN <<>> ELSE <<c>>)
    ELSE LET x == (IF i <= Len(a) THEN a[i] ELSE 0)
                    + (IF i <= Len(b) THEN b[i] ELSE 0) + c
         IN  <<x % Base>> \o AddDigits(a, b, i + 1, x \div Base)

\* a + b
Add(a, b) == AddDigits(a, b, 1, 0)

RECURSIVE MulDigit(_, _, _, _)
\* digits i.. of a times the digit d, with carry c
MulDigit(a, d, i, c) ==
    IF i > Len(a) THEN (IF c = 0 THEN <<>> ELSE <<c>>)
    ELSE LET x == a[i] * d + c
         IN  <<x % Base>> \o MulDigit(a, d, i + 1, x \div Base)

RECURSIVE MulFrom(_, _, _)
\* a * (digits j.. of b), schoolbook
MulFrom(a, b, j) ==
    IF j > Len(b) THEN <<>>
    ELSE Add(MulDigit(a, b[j], 1, 0), <<0>> \o MulFrom(a, b, j + 1))

\* a * b
Mul(a, b) == IF a = <<>> \/ b = <<>> THEN <<>> ELSE Normalize(MulFrom(a, b, 1))

\* whether a >= k for a small k (0 <= k < Base)
GeSmall(a, k) == k = 0 \/ Len(a) > 1 \/ (Len(a) = 1 /\ a[1] >= k)

RECURSIVE SubDigits(_, _, _)
\* digits i.. of a minus the borrow k
SubDigits(a, k, i) ==
    IF i > Len(a) THEN <<>>
    ELSE IF a[i] >= k THEN <<a[i] - k>> \o SubSeq(a, i + 1, Len(a))
    ELSE <<a[i] + Base - k>> \o SubDigits(a, 1, i + 1)

\* a - k for a small k, defined when GeSmall(a, k) (BigUint's `-` panics otherwise)
SubSmall(a, k) == Normalize(SubDigits(a, k, 1))

RECURSIVE LtDigits(_, _, _)
\* a < b on the digits i..1 of two numbers of the same length
LtDigits(a, b, i) ==
    IF i = 0 THEN FALSE
    ELSE IF a[i] # b[i] THEN a[i] < b[i]
    ELSE LtDigits(a, b, i - 1)

\* a < b
Lt(a, b) ==
    IF Len(a) # Len(b) THEN Len(a) < Len(b) ELSE LtDigits(a, b, Len(a))

RECURSIVE ModFrom(_, _, _)
\* (digits i.. of a) mod d for a small natural d > 0 (Horner)
ModFrom(a, d, i) ==
    IF i > Len(a) THEN 0 ELSE (a[i] + Base * ModFrom(a, d, i + 1)) % d

\* a mod d, by arithmetic on the digits: the reference the reductions are
\* compared with
ModSmall(a, d) == ModFrom(a, d, 1)

---------------------------------------------------------------------------
(* mod_mersenne *)

\* the modulus with its shift off by one
ModulusWide(p) == SubSmall(OneShl(p + 1), 1)

\* let modulus = (&BigUint::one() << p) - 1u32
Modulus(p) == SubSmall(OneShl(p), 1)

\* the loop test off by one
LoopTestLate(n, p) == Bits(n) > p + 1

\* the loop test: n.bits() > p
LoopTest(n, p) == Bits(n) > p

\* the loop body: n = (n >> p) + (n & modulus)
Split(n, p, modulus) == Add(Shr(n, p), BitAnd(n, modulus))

\* the final test without its first branch
CanonicalKept(n, p, modulus) == n

\* the final test replaced by one more split, its shift off by one
CanonicalBySplit(n, p, modulus) == Add(Shr(n, p - 1), BitAnd(n, modulus))

\* the final test: if n == modulus { zero } else { n }
Canonical(n, p, modulus) == IF n = modulus THEN Zero ELSE n

RECURSIVE Reduce(_, _, _)
\* the loop and the final test
Reduce(n, p, modulus) ==
    IF LoopTest(n, p) THEN Reduce(Split(n, p, modulus), p, modulus)
    ELSE Canonical(n, p, modulus)

\* the whole call
mod_mersenne(n, p) == Reduce(n, p, Modulus(p))

---------------------------------------------------------------------------
(* is_mersenne_prime *)

\* the loop bound off by one
TotalIterationsPlusOne(p) == p - 1

\* let total_iterations = p - 2
TotalIterations(p) == p - 2

\* let progress_interval = (total_iterations / 100).max(1)
ProgressInterval(p) == Max(TotalIterations(p) \div 100, 1)

\* the start value with the literal mistyped
StartValueThree == FromNat(3)

\* let mut s = 4u32.to_biguint().unwrap()
StartValue == FromNat(4)

\* whether sq - 2u32 is defined (BigUint's `-` panics on a negative result)
CanSubTwo(sq) == GeSmall(sq, 2)

\* whether &s * &s - 2u32 is defined
CanSquareSub(x) == CanSubTwo(Mul(x, x))

\* &s * &s - 2u32
SquareSub(x) == SubSmall(Mul(x, x), 2)

\* if i % progress_interval == 0 || i == total_iterations
Reports(i, p) == i % ProgressInterval(p) = 0 \/ i = TotalIterations(p)

\* let percent = (i * 100) / total_iterations
Percent(i, p) == (i * 100) \div TotalIterations(p)

RECURSIVE LucasLehmer(_, _, _)
\* the loop from iteration i on and the final s.is_zero(); a subtraction
\* that fails is a panic
LucasLehmer(x, i, p) ==
    IF i > TotalIterations(p) THEN Ok(IsZero(x))
    ELSE LET sq == Mul(x, x)
         IN  IF ~CanSubTwo(sq) THEN Failed
             ELSE LucasLehmer(mod_mersenne(SubSmall(sq, 2), p), i + 1, p)

\* the whole call
is_mersenne_prime(p) ==
    IF p < 2 THEN Ok(FALSE)
    ELSE IF p = 2 THEN Ok(TRUE)
    ELSE LucasLehmer(StartValue, 1, p)

---------------------------------------------------------------------------
(* is_prime *)

\* the largest value of the word
WordMax == 2 ^ WordBits - 1

\* the word an overflowing result wraps to (release build)
Wrap(x) == x % (2 ^ WordBits)

\* whether a result does not fit the word
Overflows(x) == x > WordMax

Returned(b) == [pc |-> "done", i |-> 0, ret |-> b]

Panicked == [pc |-> "panic", i |-> 0, ret |-> "none"]

Looping(i) == [pc |-> "loop", i |-> i, ret |-> "none"]

\* the lines before the loop
PrimeEntry(n) ==
    IF n <= 1 THEN Returned(FALSE)
    ELSE IF n <= 3 THEN Returned(TRUE)
    ELSE IF n % 2 = 0 \/ n % 3 = 0 THEN Returned(FALSE)
    ELSE Looping(5)

\* the loop test with < for <=
WithinRootStrict(sq, n) == sq < n

\* the loop test, on the word i * i evaluated to: i * i <= n
WithinRoot(sq, n) == sq <= n

\* the loop test and one iteration of the loop.  i * i, i + 2 and i += 6 are
\* word arithmetic: a result that does not fit panics when the build checks
\* overflow and wraps when it does not; a remainder by zero panics.
PrimeStep(n, i, checks) ==
    IF Overflows(i * i) /\ checks THEN Panicked
    ELSE IF ~WithinRoot(Wrap(i * i), n) THEN Returned(TRUE)
    ELSE IF i = 0 THEN Panicked
    ELSE IF n % i = 0 THEN Returned(FALSE)
    ELSE IF Overflows(i + 2) /\ checks THEN Panicked
    ELSE IF Wrap(i + 2) = 0 THEN Panicked
    ELSE IF n % Wrap(i + 2) = 0 THEN Returned(FALSE)
    ELSE IF Overflows(i + 6) /\ checks THEN Panicked
    ELSE Looping(Wrap(i + 6))

RECURSIVE PrimeRun(_, _)
\* the call from a position on
PrimeRun(n, st) ==
    IF st.pc = "done" THEN Ok(st.ret)
    ELSE IF st.pc = "panic" THEN Failed
    ELSE PrimeRun(n, PrimeStep(n, st.i, TRUE))

\* the whole call (on the exponents of main no operation overflows)
is_prime(n) == PrimeRun(n, PrimeEntry(n))

---------------------------------------------------------------------------
(* main *)

RECURSIVE RangeDown(_, _)
\* the range walked from its end: (a..=b).rev()
RangeDown(a, b) == IF a > b THEN <<>> ELSE <<b>> \o RangeDown(a, b - 1)

RECURSIVE RangeUp(_, _)
\* a..=b
RangeUp(a, b) == IF a > b THEN <<>> ELSE <<a>> \o RangeUp(a + 1, b)

KeepPrime(x) == is_prime(x) = Ok(TRUE)

\* the filter over the reversed range
ExponentsDescending(a, b) == SelectSeq(RangeDown(a, b), KeepPrime)

\* (start_p..=end_p).filter(|&p| is_prime(p)).collect()
Exponents(a, b) == SelectSeq(RangeUp(a, b), KeepPrime)

Pending == [pc |-> "pending", ret |-> "none"]

\* the closure has called is_mersenne_prime(p, verbose), which has not returned
Running == [pc |-> "running", ret |-> "none"]

\* is_mersenne_prime(p, verbose) returned (or panicked) in a call of the
\* closure.  The call reads and writes its argument and its locals only, so
\* it is one step of the thread that runs it.
CallReturn(p) ==
    LET r == is_mersenne_prime(p)
    IN  IF r.ok THEN [pc |-> "done", ret |-> r.value]
        ELSE [pc |-> "panic", ret |-> "none"]

\* the closure's value with the test of is_prime_result dropped
YieldsAlways(t) == TRUE

\* the closure's value: Some(p) if is_prime_result, None otherwise
Yields(t) == t.ret = TRUE

RECURSIVE CollectFrom(_, _, _)
\* filter_map(..).collect() into a Vec: the Some(p) in the order of the
\* items of `exponents`, whatever the order the calls finished in
CollectFrom(exps, tasks, k) ==
    IF k > Len(exps) THEN <<>>
    ELSE (IF Yields(tasks[k]) THEN <<exps[k]>> ELSE <<>>)
             \o CollectFrom(exps, tasks, k + 1)

Collect(exps, tasks) == CollectFrom(exps, tasks, 1)

---------------------------------------------------------------------------
(* Idle values of the variables of the routines a specification leaves out *)

IdleReduce ==
    /\ r_in = Zero /\ r_p = 0 /\ r_n = Zero /\ r_ret = "none" /\ r_pc = "idle"
    /\ r_call = 0 /\ r_first = Zero /\ r_prev = Zero /\ r_iters = 0

IdleLL ==
    /\ l_p = 0 /\ l_verbose = FALSE /\ l_s = Zero /\ l_i = 0
    /\ l_pc = "idle" /\ l_ret = "none" /\ l_percent = -1

IdlePrime ==
    /\ q_n = 0 /\ q_i = 0 /\ q_pc = "idle" /\ q_ret = "none" /\ q_checks = FALSE

IdlePool ==
    /\ m_start = 0 /\ m_end = 0 /\ m_pc = "idle" /\ m_exponents = <<>>
    /\ m_task = <<>> /\ m_results = <<>> /\ m_printed = <<>> /\ m_late = FALSE

---------------------------------------------------------------------------
(* SpecReduce: mod_mersenne(n, p), then mod_mersenne of its result *)

\* the arguments n: the small numbers and their squares
ReduceInputs ==
    {FromNat(x) : x \in 0..MaxInput}
        \cup {Mul(FromNat(x), FromNat(x)) : x \in 0..MaxInput}

InitReduce ==
    /\ r_in \in ReduceInputs
    /\ r_p \in 1..MaxReduceP
    /\ r_n = r_in
    /\ r_ret = "none"
    /\ r_pc = "loop"
    /\ r_call = 1
    /\ r_first = Zero
    /\ r_prev = Zero
    /\ r_iters = 0
    /\ IdleLL /\ IdlePrime /\ IdlePool

\* one iteration of `while n.bits() > p`
ReduceLoop ==
    /\ r_pc = "loop"
    /\ LoopTest(r_n, r_p)
    /\ r_prev' = r_n
    /\ r_n' = Split(r_n, r_p, Modulus(r_p))
    /\ r_iters' = r_iters + 1
    /\ UNCHANGED <<r_in, r_p, r_ret, r_pc, r_call, r_first>>
    /\ UNCHANGED <<llVars, primeVars, poolVars>>

\* the loop test fails: the loop is left
ReduceExit ==
    /\ r_pc = "loop"
    /\ ~LoopTest(r_n, r_p)
    /\ r_pc' = "check"
    /\ UNCHANGED <<r_in, r_p, r_n, r_ret, r_call, r_first, r_prev, r_iters>>
    /\ UNCHANGED <<llVars, primeVars, poolVars>>

\* the final test and the return
ReduceReturn ==
    /\ r_pc = "check"
    /\ r_ret' = Canonical(r_n, r_p, Modulus(r_p))
    /\ r_pc' = "done"
    /\ r_first' = IF r_call = 1 THEN r_ret' ELSE r_first
    /\ UNCHANGED <<r_in, r_p, r_n, r_call, r_prev, r_iters>>
    /\ UNCHANGED <<llVars, primeVars, poolVars>>

\* the caller reduces the result once more: mod_mersenne(&result, p)
ReduceAgain ==
    /\ r_pc = "done"
    /\ r_call = 1
    /\ r_call' = 2
    /\ r_n' = r_first
    /\ r_ret' = "none"
    /\ r_pc' = "loop"
    /\ r_prev' = Zero
    /\ r_iters' = 0
    /\ UNCHANGED <<r_in, r_p, r_first>>
    /\ UNCHANGED <<llVars, primeVars, poolVars>>

NextReduce == ReduceLoop \/ ReduceExit \/ ReduceReturn \/ ReduceAgain

SpecReduce == InitReduce /\ [][NextReduce]_vars

\* the argument of the call in progress
r_arg == IF r_call = 1 THEN r_in ELSE r_first

\* C1: a call mod_mersenne(n, p) with p >= 1 returns n mod (2^p - 1), a value
\* of [0, 2^p - 2]: 0 for n = 0, n itself (and no loop iteration) for an n
\* below the modulus, and 0 when the loop ends at 2^p - 1.
C1_ReduceIsMod ==
    r_pc = "done" =>
        /\ r_ret = FromNat(ModSmall(r_arg, 2 ^ r_p - 1))
        /\ Lt(r_ret, Modulus(r_p))
        /\ (r_arg = Zero => r_ret = Zero)
        /\ (Lt(r_arg, Modulus(r_p)) => r_ret = r_arg /\ r_iters = 0)
        /\ (r_n = Modulus(r_p) => r_ret = Zero)

\* a call that looped more than once and ended at the modulus, returning 0
C1_Witness ==
    /\ r_pc = "done" /\ r_call = 1 /\ r_p >= 2
    /\ r_iters >= 2 /\ r_n = Modulus(r_p) /\ r_ret = Zero

\* C7: mod_mersenne of a result of mod_mersenne is that result.
C7_Idempotent == (r_pc = "done" /\ r_call = 2) => r_ret = r_first

\* the second call has returned, on a first result that was a proper reduction
C7_Witness ==
    /\ r_pc = "done" /\ r_call = 2 /\ r_p >= 2
    /\ r_first # r_in /\ r_first # Zero

\* an iteration with p >= 2 that kept the bit-length of n
C8_Witness ==
    /\ r_p >= 2 /\ r_iters > 0 /\ Bits(r_n) = Bits(r_prev)

\* C8 as stated: every loop iteration strictly decreases the bit-length of n,
\* and the loop ends with a bit-length of at most p.
C8_BitsDecrease ==
    /\ (r_iters > 0 => Bits(r_n) < Bits(r_prev))
    /\ (r_pc \in {"check", "done"} => Bits(r_n) <= r_p)

\* C8 as amended: every loop iteration strictly decreases the value of n and
\* never increases its bit-length, and the loop ends with a bit-length of at
\* most p.
C8_ValueDecreases ==
    /\ (r_iters > 0 => Lt(r_n, r_prev) /\ Bits(r_n) <= Bits(r_prev))
    /\ (r_pc \in {"check", "done"} => Bits(r_n) <= r_p)

---------------------------------------------------------------------------
(* SpecLL: one call is_mersenne_prime(p, verbose) *)

InitLL ==
    /\ l_p \in 0..MaxExponent
    /\ l_verbose \in BOOLEAN
    /\ l_s = Zero
    /\ l_i = 0
    /\ l_pc = "entry"
    /\ l_ret = "none"
    /\ l_percent = -1
    /\ IdleReduce /\ IdlePrime /\ IdlePool

\* the two early returns, or the set-up of the loop
LLEnter ==
    /\ l_pc = "entry"
    /\ IF l_p < 2
          THEN l_pc' = "done" /\ l_ret' = FALSE /\ UNCHANGED <<l_s, l_i>>
          ELSE IF l_p = 2
          THEN l_pc' = "done" /\ l_ret' = TRUE /\ UNCHANGED <<l_s, l_i>>
          ELSE l_pc' = "loop" /\ l_s' = StartValue /\ l_i' = 1 /\ UNCHANGED l_ret
    /\ UNCHANGED <<l_p, l_verbose, l_percent>>
    /\ UNCHANGED <<redVars, primeVars, poolVars>>

\* s = &s * &s - 2u32
LLSquare ==
    /\ l_pc = "loop"
    /\ l_i <= TotalIterations(l_p)
    /\ IF CanSquareSub(l_s)
          THEN l_s' = SquareSub(l_s) /\ l_pc' = "reduce"
          ELSE l_pc' = "panic" /\ UNCHANGED l_s
    /\ UNCHANGED <<l_p, l_verbose, l_i, l_ret, l_percent>>
    /\ UNCHANGED <<redVars, primeVars, poolVars>>

\* s = mod_mersenne(&s, p), the progress report, and the step of i
LLReduce ==
    /\ l_pc = "reduce"
    /\ l_s' = mod_mersenne(l_s, l_p)
    /\ l_percent' = IF l_verbose /\ Reports(l_i, l_p)
                       THEN Percent(l_i, l_p) ELSE l_percent
    /\ l_i' = l_i + 1
    /\ l_pc' = "loop"
    /\ UNCHANGED <<l_p, l_verbose, l_ret>>
    /\ UNCHANGED <<redVars, primeVars, poolVars>>

\* the range 1..=total_iterations is exhausted: s.is_zero()
LLReturn ==
    /\ l_pc = "loop"
    /\ l_i > TotalIterations(l_p)
    /\ l_ret' = IsZero(l_s)
    /\ l_pc' = "done"
    /\ UNCHANGED <<l_p, l_verbose, l_s, l_i, l_percent>>
    /\ UNCHANGED <<redVars, primeVars, poolVars>>

NextLL == LLEnter \/ LLSquare \/ LLReduce \/ LLReturn

SpecLL == InitLL /\ [][NextLL]_vars

\* 2^p - 1 is prime, by the definition: it is at least 2 and no d with
\* 1 < d < 2^p - 1 divides it.  A composite 2^p - 1 has a divisor below
\* 2^((p+1)/2), so the d beyond that are left out.
MersenneNumberIsPrime(p) ==
    /\ p >= 2
    /\ \A d \in 2..(2 ^ ((p + 1) \div 2)) :
           Lt(FromNat(d), Modulus(p)) => ModSmall(Modulus(p), d) # 0

\* C2: is_mersenne_prime(p, verbose) returns, with or without progress
\* reports, true exactly when p >= 2 and 2^p - 1 is prime: false for p = 0 and
\* p = 1, true for p in {2,3,5,7,13,17,19,31}, false for p in {11,23,29}.
C2_Verdict ==
    /\ l_pc # "panic"
    /\ l_pc = "done" =>
          /\ l_ret = MersenneNumberIsPrime(l_p)
          /\ (l_p \in {0, 1} => l_ret = FALSE)
          /\ (l_p \in {2, 3, 5, 7, 13, 17, 19, 31} => l_ret = TRUE)
          /\ (l_p \in {11, 23, 29} => l_ret = FALSE)

\* the call for p = 31 returned true, without progress reports
C2_Witness == l_pc = "done" /\ l_p = 31 /\ ~l_verbose /\ l_ret = TRUE

\* C9: for p >= 3 every iteration's subtraction s * s - 2 is applied to an s
\* with s * s >= 2 (s is neither 0 nor 1), no call panics, the loop variable
\* stays within 1..p-1, and a call that returned returned a boolean.
C9_NoUnderflow ==
    /\ l_pc \in {"entry", "loop", "reduce", "done"}
    /\ (l_pc = "loop" /\ l_i <= TotalIterations(l_p)) =>
           (CanSquareSub(l_s) /\ l_s # Zero /\ l_s # One)
    /\ l_pc \in {"loop", "reduce"} => (l_p >= 3 /\ l_i \in 1..(l_p - 1))
    /\ l_pc = "done" => l_ret \in BOOLEAN

\* the last subtraction of the call for the largest exponent was applied
C9_Witness ==
    /\ l_pc = "reduce" /\ l_p = MaxExponent /\ l_i = TotalIterations(l_p)

\* C10: for p >= 3 the state s is below 2^p - 1 wherever the loop range or
\* the result is tested: initially and after each iteration's reduction.
C10_Reduced ==
    (l_p >= 3 /\ l_pc \in {"loop", "done"}) => Lt(l_s, Modulus(l_p))

\* s is reduced after two iterations, and its next s * s - 2 is not
C10_Witness ==
    /\ l_pc = "loop" /\ l_i > 2
    /\ ~Lt(SquareSub(l_s), Modulus(l_p))

---------------------------------------------------------------------------
(* SpecPrime: one call is_prime(n) *)

InitPrime ==
    /\ q_n \in 0..WordMax
    /\ q_checks \in BOOLEAN
    /\ q_i = 0
    /\ q_pc = "entry"
    /\ q_ret = "none"
    /\ IdleReduce /\ IdleLL /\ IdlePool

\* the early returns, or let mut i = 5
PrimeEnter ==
    /\ q_pc = "entry"
    /\ q_pc' = PrimeEntry(q_n).pc
    /\ q_i' = PrimeEntry(q_n).i
    /\ q_ret' = PrimeEntry(q_n).ret
    /\ UNCHANGED <<q_n, q_checks>>
    /\ UNCHANGED <<redVars, llVars, poolVars>>

\* the loop test and, when it holds, the loop body
PrimeIterate ==
    /\ q_pc = "loop"
    /\ q_pc' = PrimeStep(q_n, q_i, q_checks).pc
    /\ q_i' = PrimeStep(q_n, q_i, q_checks).i
    /\ q_ret' = PrimeStep(q_n, q_i, q_checks).ret
    /\ UNCHANGED <<q_n, q_checks>>
    /\ UNCHANGED <<redVars, llVars, poolVars>>

NextPrime == PrimeEnter \/ PrimeIterate

SpecPrime == InitPrime /\ [][NextPrime]_vars

\* n is prime, by the definition
IsPrimeByDefinition(n) == n >= 2 /\ \A d \in 2..(n - 1) : n % d # 0

\* C3: for every n in [0, 10000] is_prime(n) returns true exactly when n is
\* prime by the definition; is_prime(0) and is_prime(1) are false, is_prime(2)
\* and is_prime(3) are true, is_prime(9) is false.
C3_MatchesDefinition ==
    q_n <= TestedRange =>
        /\ q_pc # "panic"
        /\ q_pc = "done" =>
              /\ q_ret = IsPrimeByDefinition(q_n)
              /\ (q_n \in {0, 1, 9} => q_ret = FALSE)
              /\ (q_n \in {2, 3} => q_ret = TRUE)

\* a call for one of the largest primes of the range returned true
C3_Witness ==
    /\ q_pc = "done" /\ q_ret = TRUE
    /\ q_n > TestedRange - 100 /\ q_n <= TestedRange

\* C4: on the whole word is_prime returns, and returns true exactly when n is
\* prime; no i * i, i + 2 or i += 6 overflows the word.
C4_ExactOnWord ==
    /\ q_pc # "panic"
    /\ q_pc = "loop" =>
          (~Overflows(q_i * q_i) /\ ~Overflows(q_i + 2) /\ ~Overflows(q_i + 6))
    /\ q_pc = "done" => q_ret = IsPrimeByDefinition(q_n)

---------------------------------------------------------------------------
(* SpecPool: main.  The calls of the closure of par_iter().filter_map() run *)
(* on a pool of NumWorkers threads: any call not yet started may start     *)
(* while a thread is free, and the calls in progress finish in any order.  *)

InitPool ==
    /\ m_start \in 0..MaxEnd
    /\ m_end \in 0..MaxEnd
    /\ m_pc = "start"
    /\ m_exponents = <<>>
    /\ m_task = <<>>
    /\ m_results = <<>>
    /\ m_printed = <<>>
    /\ m_late = FALSE
    /\ IdleReduce /\ IdleLL /\ IdlePrime

InProgress == {k \in DOMAIN m_task : m_task[k].pc = "running"}

\* if start_p > end_p { println!("Error: ..."); return; }
MainReject ==
    /\ m_pc = "start"
    /\ m_start > m_end
    /\ m_pc' = "usage"
    /\ UNCHANGED <<m_start, m_end, m_exponents, m_task, m_results, m_printed, m_late>>
    /\ UNCHANGED <<redVars, llVars, primeVars>>

\* let exponents = ...
MainFilter ==
    /\ m_pc = "start"
    /\ m_start <= m_end
    /\ m_exponents' = Exponents(m_start, m_end)
    /\ m_task' = [k \in 1..Len(m_exponents') |-> Pending]
    /\ m_pc' = IF \A x \in m_start..m_end : is_prime(x).ok THEN "map" ELSE "panic"
    /\ UNCHANGED <<m_start, m_end, m_results, m_printed, m_late>>
    /\ UNCHANGED <<redVars, llVars, primeVars>>

\* a free thread starts the closure on the item of index k
TaskStart(k) ==
    /\ m_pc = "map"
    /\ m_task[k].pc = "pending"
    /\ Cardinality(InProgress) < NumWorkers
    /\ m_task' = [m_task EXCEPT ![k] = Running]
    /\ UNCHANGED <<m_start, m_end, m_pc, m_exponents, m_results, m_printed, m_late>>
    /\ UNCHANGED <<redVars, llVars, primeVars>>

\* the call of index k finishes: is_mersenne_prime returns and the closure
\* yields Some(p) or None; a panic of a call is a panic of main
TaskFinish(k) ==
    /\ m_pc = "map"
    /\ m_task[k].pc = "running"
    /\ m_task' = [m_task EXCEPT ![k] = CallReturn(m_exponents[k])]
    /\ m_pc' = IF m_task'[k].pc = "panic" THEN "panic" ELSE m_pc
    /\ m_late' = (m_late \/ \E j \in 1..(k - 1) : m_task[j].pc # "done")
    /\ UNCHANGED <<m_start, m_end, m_exponents, m_results, m_printed>>
    /\ UNCHANGED <<redVars, llVars, primeVars>>

\* every call finished: collect() returns `results`
MainCollect ==
    /\ m_pc = "map"
    /\ \A k \in DOMAIN m_task : m_task[k].pc = "done"
    /\ m_results' = Collect(m_exponents, m_task)
    /\ m_pc' = "report"
    /\ UNCHANGED <<m_start, m_end, m_exponents, m_task, m_printed, m_late>>
    /\ UNCHANGED <<redVars, llVars, primeVars>>

\* println!("Mersenne primes found:"); for p in &results { println!(...) }
MainReport ==
    /\ m_pc = "report"
    /\ m_printed' = m_results
    /\ m_pc' = "done"
    /\ UNCHANGED <<m_start, m_end, m_exponents, m_task, m_results, m_late>>
    /\ UNCHANGED <<redVars, llVars, primeVars>>

NextPool ==
    \/ MainReject
    \/ MainFilter
    \/ \E k \in DOMAIN m_task : TaskStart(k)
    \/ \E k \in DOMAIN m_task : TaskFinish(k)
    \/ MainCollect
    \/ MainReport

SpecPool == InitPool /\ [][NextPool]_vars

Elements(q) == {q[k] : k \in DOMAIN q}

StrictlyAscending(q) == \A j, k \in DOMAIN q : j < k => q[j] < q[k]

\* C5: the list printed after "Mersenne primes found:" is in strictly
\* ascending order, whatever the range and the order the calls finished in.
C5_PrintedAscending ==
    /\ StrictlyAscending(m_printed)
    /\ m_pc = "done" => m_printed = m_results

\* a report of at least three exponents after calls that finished out of order
C5_Witness == m_pc = "done" /\ m_late /\ Len(m_printed) >= 3

\* C6: for start <= end the exponents collected are the p of [start, end]
\* with is_prime(p) and is_mersenne_prime(p), whatever the interleaving of
\* the calls; for [2, 20] the filter leaves {2,3,5,7,11,13,17,19} and the
\* results are {2,3,5,7,13,17,19}.
C6_ResultSet ==
    /\ m_pc # "panic"
    /\ m_pc \in {"report", "done"} =>
          /\ m_start <= m_end
          /\ Elements(m_results) =
                {p \in m_start..m_end :
                    is_prime(p) = Ok(TRUE) /\ is_mersenne_prime(p) = Ok(TRUE)}
          /\ (m_start = 2 /\ m_end = 20) =>
                /\ Elements(m_exponents) = {2, 3, 5, 7, 11, 13, 17, 19}
                /\ Elements(m_results) = {2, 3, 5, 7, 13, 17, 19}

\* the range [2, 20] collected after calls that finished out of order
C6_Witness ==
    /\ m_pc = "report" /\ m_start = 2 /\ m_end = 20 /\ m_late

=============================================================================
